---- MODULE Spec2Model ----
(***************************************************************************)
(* Model of the visa-booking batch orchestrator: main() of src/index.js    *)
(* and the Orchestrator class of src/core/orchestrator.js, with the        *)
(* session state machines, the notifier and the configuration seen through *)
(* the outcomes they hand to the orchestrator.                             *)
(*                                                                         *)
(* Spec         the whole process run: configuration check, first run,     *)
(*              batches racing a shared timeout, notifications that may    *)
(*              fail, the retry pass, the counter merge and the exit code. *)
(* SpecBatches  the first run alone on a longer account list, every        *)
(*              session outcome and the timeout possible: several batches  *)
(*              of several sessions in sequence; SpecBatchesFair adds the  *)
(*              fairness of the event loop.                                *)
(* SpecPlan     the same actions on larger account and proxy lists with    *)
(*              every session returning "no slots": batch partition and    *)
(*              proxy assignment.                                          *)
(* SpecParse    parseProxy of utils/proxy-parser.js applied to proxy lines *)
(*              written character by character.                            *)
(* SpecSession  one SessionManager of core/session-manager.js from its     *)
(*              constructor through the steps of execute() to its outcome. *)
(* SpecPoll     getTaskResult of core/capsolver.js: the poll loop of one   *)
(*              solver task.                                               *)
(* SpecNotify   the first run with the per-outcome notification requests   *)
(*              completing on their own.                                   *)
(* SpecLate     the process run with sessions that end after their race    *)
(*              against the timeout was lost.                              *)
(***************************************************************************)
EXTENDS Integers, Sequences, FiniteSets, TLC

\* ---- bounds of the process-run specification (Spec) ----
MaxAccounts == 2
MaxUsers == 2
MaxParallel == 2
MaxProxies == 2
MaxRetry == 1

\* ---- bound of the batch-sequence specification (SpecBatches) ----
BatchAccounts == 3

\* ---- bounds of the proxy-line specification (SpecParse) ----
ParseFields == 4
ParseTags == 3

\* ---- bounds of the partition specification (SpecPlan) ----
PlanAccounts == 12
PlanParallel == 5
PlanProxies == 5
MaxPollFaults == 1

\* Config.validate accepts parallelSessions in 1..MaxParallelSessions
MaxParallelSessions == 50

VARIABLES
    config,        \* Config singleton: capsolverApiKey, parallelSessions, retryAttempts,
                   \*   telegramBotToken, telegramChatId (TRUE: a non-empty value)
    accountsFile,  \* content of config/accounts.json: the usernames, in order
    proxies,       \* lines of config/proxies.txt
    pc,            \* position of main() / Orchestrator.run()
    cur,           \* orchestrator whose run() is active: 0 none, 1 parent, 2 retry
    accounts,      \* this.accounts of each orchestrator
    stats,         \* this.stats of each orchestrator
    results,       \* this.results of each orchestrator
    accountQueue,  \* accountQueue of the active run()
    batchNumber,   \* batchNumber of the active run()
    sessions,      \* sessions of the active processBatch(), with their promises
    timeoutFired,  \* the timer of timeoutPromise has fired for the active batch
    executing,     \* state machines whose execute() has started and not ended
    attempts,      \* per account object: how many sessions were created for it
    retryPasses,   \* how many retry orchestrators were run
    batchLog,      \* batches spliced off by the active run(), as account ids
    exitCode,      \* argument of process.exit, -1 while the process lives
    notified,      \* kinds of notification for which sendMessage was called
    late,          \* state machines that ended after their race was lost, with their outcome
    proxyParts,    \* the fields a proxy line was written from, each a list of tags
    proxyString,   \* argument of parseProxy: the line, as a sequence of characters
    parsed,        \* what parseProxy gave for proxyString
    task,          \* one getTaskResult(taskId) call of the CapSolver client
    sm             \* one SessionManager: its fields, the position of execute(),
                   \*   the steps entered, the proxy uses, the fault raised, the outcome

\* variables of the process run
runVars == <<config, accountsFile, proxies, pc, cur, accounts, stats, results,
             accountQueue, batchNumber, sessions, timeoutFired, executing,
             attempts, retryPasses, batchLog, exitCode, notified, late>>
\* variables of the proxy parser
parseVars == <<proxyParts, proxyString, parsed>>
\* variables of the solver client's poll loop
pollVars == <<task>>
\* variables outside the process run
unitVars == <<parseVars, pollVars, sm>>

vars == <<runVars, unitVars>>

\* ---- values ----
NoExit == 0 - 1
NaN == 0 - 1
NullProxy == [line |-> 0, wellFormed |-> TRUE]
NoAccount == [id |-> 0, username |-> 0]
ZeroStats == [total |-> 0, success |-> 0, failed |-> 0, pending |-> 0, errors |-> 0]

Min(a, b) == IF a < b THEN a ELSE b

RECURSIVE SeqsUpTo(_, _)
SeqsUpTo(S, n) ==
    IF n = 0 THEN {<<>>}
    ELSE LET shorter == SeqsUpTo(S, n - 1)
         IN  shorter \cup {Append(s, x) : s \in {t \in shorter : Len(t) = n - 1}, x \in S}

\* usernames are arbitrary labels: a list is taken with its usernames numbered
\* in order of first appearance
FirstUse(s) ==
    \A k \in 1..Len(s) : s[k] = 1 \/ \E j \in 1..(k - 1) : s[j] >= s[k] - 1

\* ---- Config (config.js) ----
ConfigValidNoUpper(c) ==
    /\ c.capsolverApiKey
    /\ ~(c.parallelSessions < 1)
ConfigValid(c) ==
    /\ c.capsolverApiKey
    /\ ~(c.parallelSessions < 1 \/ c.parallelSessions > MaxParallelSessions)

\* createTelegramNotifier: null unless both credentials are present
TelegramEnabledOnAny(c) == ~(~c.telegramBotToken /\ ~c.telegramChatId)
TelegramEnabled(c) == ~(~c.telegramBotToken \/ ~c.telegramChatId)

\* ---- Orchestrator.constructor ----
NewStats(accts) ==
    [total |-> Len(accts), success |-> 0, failed |-> 0, pending |-> Len(accts), errors |-> 0]

\* ---- processBatch: proxy assignment (round-robin) ----
\* x % 0 is NaN in JavaScript
ProxyIndexNoWrap(bn, ps, index, np) ==
    IF np > 0 THEN bn * ps + index ELSE NaN
ProxyIndex(bn, ps, index, np) ==
    IF np > 0 THEN (bn * ps + index) % np ELSE NaN

\* an index outside the array reads undefined, which is as falsy as null
AssignProxyPerBatch(bn, ps, index, pxs) ==
    LET proxyIndex == ProxyIndex(bn, ps, 0, Len(pxs))
    IN  IF Len(pxs) > 0 /\ proxyIndex + 1 \in DOMAIN pxs
        THEN pxs[proxyIndex + 1]
        ELSE NullProxy
AssignProxy(bn, ps, index, pxs) ==
    LET proxyIndex == ProxyIndex(bn, ps, index, Len(pxs))
    IN  IF Len(pxs) > 0 /\ proxyIndex + 1 \in DOMAIN pxs
        THEN pxs[proxyIndex + 1]
        ELSE NullProxy

SessionIndex(bn, ps, index) == (bn - 1) * ps + index

\* ---- processBatch: the value of a session promise ----
\* what execute() can do before the timeout: return an outcome, or raise;
\* "ctor" is a fault of the SessionManager constructor
Returned == {"success", "failed", "error"}
Outcomes == Returned \cup {"raise"}

RaceStatus(ret) == IF ret \in Returned THEN ret ELSE "error"

\* the race lost against timeoutPromise
TimedOutAsError(s) == [s EXCEPT !.status = "error"]
TimedOut(s) == [s EXCEPT !.status = "timeout"]

\* new SessionManager(account, proxy, config): parseProxy throws on a malformed line
ConstructorThrowsNever(proxy) == FALSE
ConstructorThrows(proxy) == proxy /= NullProxy /\ ~proxy.wellFormed

NewSession(account, bn, ps, i, pxs) ==
    LET proxy == AssignProxy(bn, ps, i - 1, pxs)
    IN  [account    |-> account,
         proxy      |-> proxy,
         proxyIndex |-> ProxyIndex(bn, ps, i - 1, Len(pxs)),
         index      |-> SessionIndex(bn, ps, i - 1),
         ret        |-> IF ConstructorThrows(proxy) THEN "ctor" ELSE "none",
         status     |-> IF ConstructorThrows(proxy) THEN RaceStatus("ctor") ELSE "pending"]

\* ---- run(): the batch taken off the queue ----
BatchSizeOne(ps, queue) == 1
BatchSize(ps, queue) == Min(ps, Len(queue))

SpliceRestSkip(queue, n) == SubSeq(queue, n + 2, Len(queue))
SpliceRest(queue, n) == SubSeq(queue, n + 1, Len(queue))

\* ---- processSessionResult: the synchronous part, counters and results ----
ProcessSessionResultStrict(st, status) ==
    LET p == [st EXCEPT !.pending = @ - 1]
    IN  IF status = "success" THEN [p EXCEPT !.success = @ + 1]
        ELSE IF status = "failed" THEN [p EXCEPT !.failed = @ + 1]
        ELSE IF status = "error" THEN [p EXCEPT !.errors = @ + 1]
        ELSE p
ProcessSessionResult(st, status) ==
    LET p == [st EXCEPT !.pending = @ - 1]
    IN  IF status = "success" THEN [p EXCEPT !.success = @ + 1]
        ELSE IF status = "failed" THEN [p EXCEPT !.failed = @ + 1]
        ELSE [p EXCEPT !.errors = @ + 1]

\* processSessionResult: the notification it sends for a result; the error
\* text 'No slots available' belongs to failed results only
ResultNotification(c, status) ==
    IF ~TelegramEnabled(c) \/ status = "failed" THEN {}
    ELSE IF status = "success" THEN {"success"}
    ELSE {"error"}

SessionData(s) == [status |-> s.status, account |-> s.account.username]

\* the loop over the settled promises, in session order
RECURSIVE ProcessResultsFirstFault(_, _, _)
ProcessResultsFirstFault(acc, ss, i) ==
    IF i > Len(ss) THEN acc
    ELSE IF ss[i].ret \in {"raise", "ctor"}
         THEN [stats   |-> ProcessSessionResult(acc.stats, ss[i].status),
               results |-> Append(acc.results, SessionData(ss[i]))]
         ELSE ProcessResultsFirstFault(
                 [stats   |-> ProcessSessionResult(acc.stats, ss[i].status),
                  results |-> Append(acc.results, SessionData(ss[i]))], ss, i + 1)
RECURSIVE ProcessResults(_, _, _)
ProcessResults(acc, ss, i) ==
    IF i > Len(ss) THEN acc
    ELSE ProcessResults(
            [stats   |-> ProcessSessionResult(acc.stats, ss[i].status),
             results |-> Append(acc.results, SessionData(ss[i]))], ss, i + 1)

\* ---- retryFailed: the accounts of the retry orchestrator ----
Find(accts, u) ==
    IF \E k \in 1..Len(accts) : accts[k].username = u
    THEN accts[CHOOSE k \in 1..Len(accts) :
                  /\ accts[k].username = u
                  /\ \A j \in 1..(k - 1) : accts[j].username /= u]
    ELSE NoAccount

IsRetryStatus(r) == r.status = "error" \/ r.status = "timeout"

RECURSIVE MapFind(_, _)
MapFind(rs, accts) ==
    IF rs = <<>> THEN <<>>
    ELSE <<Find(accts, Head(rs).account)>> \o MapFind(Tail(rs), accts)

IsAccount(a) == a /= NoAccount

FailedAccounts(res, accts) ==
    SelectSeq(MapFind(SelectSeq(res, IsRetryStatus), accts), IsAccount)

MergeStats(parent, retry) ==
    [parent EXCEPT !.success = @ + retry.success,
                   !.failed  = @ + retry.failed,
                   !.errors  = @ + retry.errors]

ExitCodeOf(st) == IF st.success > 0 THEN 0 ELSE 1

\* ---- helpers over the state ----
Ids(accts) == [k \in 1..Len(accts) |-> accts[k].id]
Count(ids, id) == Cardinality({k \in 1..Len(ids) : ids[k] = id})
Pending(ss) == {i \in 1..Len(ss) : ss[i].status = "pending"}
Task(lvl, s) == <<lvl, s.index>>

\* ---- initial states ----
ProxyLines(n, flags) == [k \in 1..n |-> [line |-> k, wellFormed |-> flags[k]]]

\* ---- utils/proxy-parser.js: strings are sequences of one-character strings ----
Unknown == <<"u", "n", "k", "n", "o", "w", "n">>
EmptyString == <<>>
NotParsed ==
    [state |-> "input", host |-> EmptyString, port |-> EmptyString,
     username |-> EmptyString, password |-> EmptyString, country |-> EmptyString,
     format |-> "", original |-> EmptyString]
\* `throw new Error('Invalid proxy format: ...')`, rethrown by the catch
ParseThrows(str) == [NotParsed EXCEPT !.state = "throws", !.original = str]

\* String.prototype.indexOf, 1-based, 0 when absent
IndexOf(str, ch) ==
    IF \E i \in 1..Len(str) : str[i] = ch
    THEN CHOOSE i \in 1..Len(str) : str[i] = ch /\ \A j \in 1..(i - 1) : str[j] /= ch
    ELSE 0
Includes(str, ch) == IndexOf(str, ch) > 0

\* String.prototype.split on a one-character separator
RECURSIVE Split(_, _)
Split(str, sep) ==
    LET i == IndexOf(str, sep)
    IN  IF i = 0 THEN <<str>>
        ELSE <<SubSeq(str, 1, i - 1)>> \o Split(SubSeq(str, i + 1, Len(str)), sep)

\* Array.prototype.join
RECURSIVE Join(_, _)
Join(ss, sep) ==
    IF ss = <<>> THEN EmptyString
    ELSE IF Len(ss) = 1 THEN ss[1]
    ELSE ss[1] \o <<sep>> \o Join(Tail(ss), sep)

\* String.prototype.trim
IsSpace(ch) == ch \in {" ", "\t", "\r", "\n"}
RECURSIVE Trim(_)
Trim(str) ==
    IF str /= <<>> /\ IsSpace(Head(str)) THEN Trim(Tail(str))
    ELSE IF str /= <<>> /\ IsSpace(str[Len(str)]) THEN Trim(SubSeq(str, 1, Len(str) - 1))
    ELSE str

\* .filter(p => p): the non-empty strings
NonEmpty(ss) == SelectSeq(ss, LAMBDA p : p /= EmptyString)

\* parts[k] of JavaScript (0-based k): undefined and '' are both falsy, and
\* parseProxy only tests parts[3] for truth or replaces it by ''
Part(parts, k) == IF k + 1 \in DOMAIN parts THEN parts[k + 1] ELSE EmptyString

ParseProxyStandardOnly(str) ==
    LET parts == Split(Trim(str), ":")
    IN  IF Len(parts) < 3 THEN ParseThrows(str)
        ELSE [state |-> "ok", host |-> Part(parts, 0), port |-> Part(parts, 1),
              username |-> Part(parts, 2), password |-> Part(parts, 3),
              country |-> Unknown, format |-> "standard", original |-> str]
ParseProxy(str) ==
    LET parts == Split(Trim(str), ":")
        isSoaxFormat == Part(parts, 3) /= EmptyString /\ Includes(Part(parts, 3), ";")
        tags == NonEmpty(Split(Part(parts, 3), ";"))
    IN  IF Len(parts) < 3 THEN ParseThrows(str)
        ELSE [state    |-> "ok",
              host     |-> Part(parts, 0),
              port     |-> Part(parts, 1),
              username |-> Part(parts, 2),
              password |-> IF isSoaxFormat THEN EmptyString ELSE Part(parts, 3),
              country  |-> IF isSoaxFormat /\ Len(tags) >= 2 THEN tags[2] ELSE Unknown,
              format   |-> IF isSoaxFormat THEN "soax" ELSE "standard",
              original |-> str]

\* ---- core/session-manager.js: values of one SessionManager ----
\* detectAndSolve(page, proxyInfo = null, maxRetries = 3)
MaxRetries == 3
\* this.proxy = null
NoProxy == [NotParsed EXCEPT !.state = "null"]
NoResult == [status |-> "none", message |-> ""]
NoFault == [step |-> "", message |-> ""]
NullArg == [given |-> FALSE, line |-> EmptyString]
\* one entry of the trace of what a SessionManager did to its collaborators
Event(e) == [ev |-> e, n |-> 0, name |-> ""]
Numbered(e, k) == [ev |-> e, n |-> k, name |-> ""]
Sleep(ms) == [ev |-> "sleep", n |-> ms, name |-> ""]
Screenshot(name) == [ev |-> "screenshot", n |-> 0, name |-> name]
IdleSm ==
    [proxyArg |-> NullArg, proxy |-> NoProxy, pc |-> "idle", steps |-> <<>>,
     uses |-> {}, solverCalls |-> 0, fault |-> NoFault, result |-> NoResult,
     screenshotsOnError |-> TRUE, browser |-> FALSE, page |-> FALSE,
     log |-> <<>>, navAttempt |-> 0, captchaAttempt |-> 0, solverFaults |-> 0,
     missing |-> {}, cleanups |-> 0, closeFault |-> FALSE, timedOut |-> FALSE,
     token |-> "unread"]
\* login: for (let attempt = 1; attempt <= 3; attempt++)
NavAttempts == 3
\* the order of the awaits in execute()
Steps == <<"initBrowser", "login", "fillQuestionario", "fillFormulario",
           "searchAppointments", "bookAppointment">>

\* the three returns of execute()
Succeeded == [status |-> "success", message |-> ""]
Failed(reason) == [status |-> "failed", message |-> reason]
Errored(msg) == [status |-> "error", message |-> msg]

\* a step ends normally: execute() goes on to its next await
StepDone(s, step, next) == [s EXCEPT !.steps = Append(@, step), !.pc = next]
\* a step rejects: the catch of execute() builds the result, the finally is next
StepThrows(s, step, msg) ==
    [s EXCEPT !.steps = Append(@, step),
              !.fault = [step |-> step, message |-> msg],
              !.result = Errored(msg),
              !.pc = "cleanup"]
\* bookAppointment's own catch: the fault becomes {success: false, reason},
\* which execute() returns as status 'failed'
BookingCaught(s, msg) ==
    [s EXCEPT !.steps = Append(@, "bookAppointment"),
              !.fault = [step |-> "bookAppointment", message |-> msg],
              !.result = Failed(msg),
              !.pc = "cleanup"]
\* takeScreenshot(name): nothing unless screenshotsOnError and a page exists
TakeScreenshot(s, name) ==
    IF ~s.screenshotsOnError \/ ~s.page THEN s
    ELSE [s EXCEPT !.log = Append(@, Screenshot(name))]
Logged(s, events) == [s EXCEPT !.log = @ \o events]
\* login: const waitTime = attempt * 2000, only if (attempt < 3)
NavWaitAlways(attempt) == <<Sleep(attempt * 2000)>>
NavWait(attempt) == IF attempt < NavAttempts THEN <<Sleep(attempt * 2000)>> ELSE <<>>
\* login passes this.proxy to detectAndSolve
SolverProxyDefault(s) == NoProxy
SolverProxy(s) == s.proxy
\* initBrowser: getProxyArgs(this.proxy) at launch, authenticateProxy after it
ProxyUses(s, kinds) == IF s.proxy = NoProxy THEN {} ELSE {<<k, s.proxy>> : k \in kinds}

\* ---- core/capsolver.js: getTaskResult(taskId, maxAttempts = 60, pollInterval = 2000) ----
MaxAttempts == 60
PollInterval == 2000
IdleTask ==
    [state |-> "idle", attempt |-> 0, polls |-> 0, last |-> "", faults |-> 0, slept |-> 0,
     message |-> ""]
\* what one POST to /getTaskResult can give: status 'ready', status
\* 'processing', errorId /= 0 or a rejected request, any other status
PollResponses == {"ready", "processing", "error", "unexpected"}
\* one pass of the for loop: the poll, then return, sleep or throw; the loop
\* counter is advanced, and the throw after the loop is taken when it runs out
AfterPollUncounted(t, response) ==
    LET polled == [t EXCEPT !.polls = @ + 1, !.last = response]
        next(u) == [u EXCEPT !.slept = @ + PollInterval]
    IN  CASE response = "ready" -> [polled EXCEPT !.state = "returned"]
          [] response = "processing" -> next(polled)
          [] OTHER -> next([polled EXCEPT !.faults = @ + 1])
AfterPoll(t, response) ==
    LET polled == [t EXCEPT !.polls = @ + 1, !.last = response]
        next(u) ==
            IF u.attempt + 1 < MaxAttempts
            THEN [u EXCEPT !.attempt = @ + 1, !.slept = @ + PollInterval]
            ELSE [u EXCEPT !.attempt = @ + 1, !.slept = @ + PollInterval,
                           !.state = "threw", !.message = "CapSolver task timeout"]
    IN  CASE response = "ready" -> [polled EXCEPT !.state = "returned"]
          [] response = "processing" -> next(polled)
          [] OTHER ->
                 IF t.attempt = MaxAttempts - 1
                 THEN [polled EXCEPT !.faults = @ + 1, !.state = "threw", !.message = response]
                 ELSE next([polled EXCEPT !.faults = @ + 1])

InitRest ==
    /\ pc = "main"
    /\ cur = 0
    /\ accounts = <<<<>>, <<>>>>
    /\ stats = <<ZeroStats, ZeroStats>>
    /\ results = <<<<>>, <<>>>>
    /\ accountQueue = <<>>
    /\ batchNumber = 0
    /\ sessions = <<>>
    /\ timeoutFired = FALSE
    /\ executing = {}
    /\ attempts = [k \in 1..Len(accountsFile) |-> 0]
    /\ retryPasses = 0
    /\ batchLog = <<>>
    /\ exitCode = NoExit
    /\ notified = {}
    /\ late = {}
    /\ proxyParts = <<>>
    /\ proxyString = <<>>
    /\ parsed = NotParsed
    /\ sm = IdleSm
    /\ task = IdleTask

Init ==
    /\ config \in [capsolverApiKey  : BOOLEAN,
                   parallelSessions : 0..MaxParallel \cup {MaxParallelSessions + 1},
                   retryAttempts    : 0..MaxRetry,
                   telegramBotToken : BOOLEAN,
                   telegramChatId   : {TRUE}]
    /\ accountsFile \in {s \in SeqsUpTo(1..MaxUsers, MaxAccounts) : FirstUse(s)}
    /\ \E flags \in SeqsUpTo(BOOLEAN, MaxProxies) : proxies = ProxyLines(Len(flags), flags)
    /\ InitRest

InitBatches ==
    /\ config \in [capsolverApiKey  : {TRUE},
                   parallelSessions : 1..MaxParallel,
                   retryAttempts    : {0},
                   telegramBotToken : BOOLEAN,
                   telegramChatId   : BOOLEAN]
    /\ \E n \in 1..BatchAccounts : accountsFile = [k \in 1..n |-> k]
    /\ \E flags \in SeqsUpTo(BOOLEAN, 1) : proxies = ProxyLines(Len(flags), flags)
    /\ InitRest

InitPlan ==
    /\ config \in [capsolverApiKey  : {TRUE},
                   parallelSessions : 1..PlanParallel,
                   retryAttempts    : {0},
                   telegramBotToken : {FALSE},
                   telegramChatId   : {FALSE}]
    /\ \E n \in 1..PlanAccounts : accountsFile = [k \in 1..n |-> k]
    /\ \E n \in 0..PlanProxies : proxies = ProxyLines(n, [k \in 1..n |-> TRUE])
    /\ InitRest

\* ---- main(): validate, load, construct the orchestrator ----
Abort ==
    /\ pc' = "exited"
    /\ exitCode' = 1

Main ==
    /\ UNCHANGED unitVars
    /\ pc = "main"
    /\ IF ~ConfigValid(config) \/ Len(accountsFile) = 0
       THEN /\ Abort
            /\ UNCHANGED <<cur, accounts, stats>>
       ELSE /\ pc' = "run"
            /\ cur' = 1
            /\ accounts' = [accounts EXCEPT ![1] =
                   [k \in 1..Len(accountsFile) |-> [id |-> k, username |-> accountsFile[k]]]]
            /\ stats' = [stats EXCEPT ![1] = NewStats(accountsFile)]
            /\ exitCode' = exitCode
    /\ UNCHANGED <<late, config, accountsFile, proxies, notified, results, accountQueue, batchNumber,
                   sessions, timeoutFired, executing, attempts, retryPasses, batchLog>>

\* ---- run(): connection test, started notification, queue copy ----
RunStart ==
    /\ UNCHANGED unitVars
    /\ pc = "run"
    /\ \E connected \in BOOLEAN, sent \in BOOLEAN :
          /\ notified' = IF TelegramEnabled(config) /\ connected
                          THEN notified \cup {"started"}
                          ELSE notified
          /\ IF TelegramEnabled(config) /\ connected /\ ~sent
             THEN /\ Abort
                  /\ UNCHANGED <<accountQueue, batchNumber, batchLog>>
             ELSE /\ pc' = "loop"
                  /\ accountQueue' = accounts[cur]
                  /\ batchNumber' = 0
                  /\ batchLog' = <<>>
                  /\ exitCode' = exitCode
    /\ UNCHANGED <<late, config, accountsFile, proxies, cur, accounts, stats, results,
                   sessions, timeoutFired, executing, attempts, retryPasses>>

\* ---- run(): one turn of the while loop up to the await in processBatch ----
StartBatchCounting ==
    /\ UNCHANGED unitVars
    /\ pc = "loop"
    /\ Len(accountQueue) > 0
    /\ LET bn    == batchNumber + 1
           ps    == config.parallelSessions
           n     == BatchSize(ps, accountQueue)
           batch == SubSeq(accountQueue, 1, n)
           ss    == [i \in 1..n |-> NewSession(batch[i], bn, ps, i, proxies)]
       IN  /\ batchNumber' = bn
           /\ accountQueue' = SpliceRest(accountQueue, n)
           /\ sessions' = ss
           /\ executing' = executing \cup {Task(cur, ss[i]) : i \in Pending(ss)}
           /\ attempts' = [id \in DOMAIN attempts |-> attempts[id] + Count(Ids(batch), id)]
           /\ batchLog' = Append(batchLog, Ids(batch))
    /\ timeoutFired' = FALSE
    /\ pc' = "batch"
    /\ stats' = [stats EXCEPT ![cur].pending = @ - BatchSize(config.parallelSessions, accountQueue)]
    /\ UNCHANGED <<late, config, accountsFile, proxies, notified, cur, accounts, results,
                   retryPasses, exitCode>>
StartBatch ==
    /\ UNCHANGED unitVars
    /\ pc = "loop"
    /\ Len(accountQueue) > 0
    /\ LET bn    == batchNumber + 1
           ps    == config.parallelSessions
           n     == BatchSize(ps, accountQueue)
           batch == SubSeq(accountQueue, 1, n)
           ss    == [i \in 1..n |-> NewSession(batch[i], bn, ps, i, proxies)]
       IN  /\ batchNumber' = bn
           /\ accountQueue' = SpliceRest(accountQueue, n)
           /\ sessions' = ss
           /\ executing' = executing \cup {Task(cur, ss[i]) : i \in Pending(ss)}
           /\ attempts' = [id \in DOMAIN attempts |-> attempts[id] + Count(Ids(batch), id)]
           /\ batchLog' = Append(batchLog, Ids(batch))
    /\ timeoutFired' = FALSE
    /\ pc' = "batch"
    /\ UNCHANGED <<late, config, accountsFile, proxies, notified, cur, accounts, stats, results,
                   retryPasses, exitCode>>

\* ---- a session's execute() ends before the timeout ----
SessionResolveUncaught(i, outcome) ==
    /\ UNCHANGED unitVars
    /\ pc = "batch"
    /\ i \in Pending(sessions)
    /\ IF outcome = "raise"
       THEN /\ Abort
            /\ UNCHANGED sessions
       ELSE /\ sessions' = [sessions EXCEPT ![i].ret = outcome, ![i].status = RaceStatus(outcome)]
            /\ UNCHANGED <<pc, exitCode>>
    /\ executing' = executing \ {Task(cur, sessions[i])}
    /\ UNCHANGED <<late, config, accountsFile, proxies, notified, cur, accounts, stats, results,
                   accountQueue, batchNumber, timeoutFired, attempts, retryPasses,
                   batchLog>>
SessionResolve(i, outcome) ==
    /\ UNCHANGED unitVars
    /\ pc = "batch"
    /\ i \in Pending(sessions)
    /\ sessions' = [sessions EXCEPT ![i].ret = outcome, ![i].status = RaceStatus(outcome)]
    /\ executing' = executing \ {Task(cur, sessions[i])}
    /\ UNCHANGED <<late, config, accountsFile, proxies, notified, pc, cur, accounts, stats, results,
                   accountQueue, batchNumber, timeoutFired, attempts, retryPasses,
                   batchLog, exitCode>>

\* ---- the timer of timeoutPromise fires: every open race resolves timedOut ----
TimeoutFire ==
    /\ UNCHANGED unitVars
    /\ pc = "batch"
    /\ ~timeoutFired
    /\ Pending(sessions) /= {}
    /\ timeoutFired' = TRUE
    /\ sessions' = [i \in 1..Len(sessions) |->
                       IF sessions[i].status = "pending"
                       THEN TimedOut(sessions[i])
                       ELSE sessions[i]]
    /\ UNCHANGED <<late, config, accountsFile, proxies, notified, pc, cur, accounts, stats, results,
                   accountQueue, batchNumber, executing, attempts, retryPasses,
                   batchLog, exitCode>>

\* ---- Promise.allSettled resolves: the result loop of processBatch ----
SettleOnFirst ==
    /\ UNCHANGED unitVars
    /\ pc = "batch"
    /\ Pending(sessions) /= 1..Len(sessions)
    /\ LET done == SelectSeq(sessions, LAMBDA s : s.status /= "pending")
           r == ProcessResults([stats |-> stats[cur], results |-> results[cur]], done, 1)
       IN  /\ stats' = [stats EXCEPT ![cur] = r.stats]
           /\ results' = [results EXCEPT ![cur] = r.results]
    /\ notified' = notified \cup
           UNION {ResultNotification(config, sessions[i].status) :
                     i \in (1..Len(sessions)) \ Pending(sessions)}
    /\ pc' = "notify"
    /\ UNCHANGED <<late, config, accountsFile, proxies, cur, accounts, accountQueue,
                   batchNumber, sessions, timeoutFired, executing, attempts,
                   retryPasses, batchLog, exitCode>>
Settle ==
    /\ UNCHANGED unitVars
    /\ pc = "batch"
    /\ Pending(sessions) = {}
    /\ LET r == ProcessResults([stats |-> stats[cur], results |-> results[cur]], sessions, 1)
       IN  /\ stats' = [stats EXCEPT ![cur] = r.stats]
           /\ results' = [results EXCEPT ![cur] = r.results]
    /\ notified' = notified \cup
           UNION {ResultNotification(config, sessions[i].status) :
                     i \in (1..Len(sessions)) \ Pending(sessions)}
    /\ pc' = "notify"
    /\ UNCHANGED <<late, config, accountsFile, proxies, cur, accounts, accountQueue,
                   batchNumber, sessions, timeoutFired, executing, attempts,
                   retryPasses, batchLog, exitCode>>

\* ---- run(): batch status update, then the pause or the end of the loop;
\* the locals of the finished processBatch are gone ----
NotifyBatch ==
    /\ UNCHANGED unitVars
    /\ pc = "notify"
    /\ notified' = IF TelegramEnabled(config)
                    THEN notified \cup {"batchStatus"}
                    ELSE notified
    /\ \E sent \in BOOLEAN :
          IF TelegramEnabled(config) /\ ~sent
          THEN /\ Abort
               /\ UNCHANGED <<sessions, timeoutFired>>
          ELSE /\ pc' = IF Len(accountQueue) > 0 THEN "loop" ELSE "summary"
               /\ exitCode' = exitCode
               /\ sessions' = <<>>
               /\ timeoutFired' = FALSE
    /\ UNCHANGED <<late, config, accountsFile, proxies, cur, accounts, stats, results,
                   accountQueue, batchNumber, executing, attempts, retryPasses,
                   batchLog>>

\* ---- printFinalSummary, run() returns ----
FinalSummary ==
    /\ UNCHANGED unitVars
    /\ pc = "summary"
    /\ pc' = "returned"
    /\ UNCHANGED <<late, config, accountsFile, proxies, notified, cur, accounts, stats, results,
                   accountQueue, batchNumber, sessions, timeoutFired, executing,
                   attempts, retryPasses, batchLog, exitCode>>

\* ---- main() after orchestrator.run(): the retry decision and retryFailed ----
AfterRun ==
    /\ UNCHANGED unitVars
    /\ pc = "returned"
    /\ cur = 1
    /\ LET failedAccounts == FailedAccounts(results[1], accounts[1])
       IN  IF config.retryAttempts > 0 /\ stats[1].errors > 0 /\ Len(failedAccounts) > 0
           THEN /\ pc' = "run"
                /\ cur' = 2
                /\ accounts' = [accounts EXCEPT ![2] = failedAccounts]
                /\ stats' = [stats EXCEPT ![2] = NewStats(failedAccounts)]
                /\ results' = [results EXCEPT ![2] = <<>>]
                /\ retryPasses' = retryPasses + 1
           ELSE /\ pc' = "exit"
                /\ UNCHANGED <<cur, accounts, stats, results, retryPasses>>
    /\ UNCHANGED <<late, config, accountsFile, proxies, notified, accountQueue, batchNumber, sessions,
                   timeoutFired, executing, attempts, batchLog, exitCode>>

\* ---- retryFailed after retryOrchestrator.run(): merge results ----
RetryMerge ==
    /\ UNCHANGED unitVars
    /\ pc = "returned"
    /\ cur = 2
    /\ stats' = [stats EXCEPT ![1] = MergeStats(stats[1], stats[2])]
    /\ cur' = 1
    /\ pc' = "exit"
    /\ UNCHANGED <<late, config, accountsFile, proxies, notified, accounts, results, accountQueue,
                   batchNumber, sessions, timeoutFired, executing, attempts,
                   retryPasses, batchLog, exitCode>>

\* ---- main(): exit with appropriate code ----
Exit ==
    /\ UNCHANGED unitVars
    /\ pc = "exit"
    /\ exitCode' = ExitCodeOf(stats[1])
    /\ pc' = "exited"
    /\ UNCHANGED <<late, config, accountsFile, proxies, notified, cur, accounts, stats, results,
                   accountQueue, batchNumber, sessions, timeoutFired, executing,
                   attempts, retryPasses, batchLog>>

Next ==
    \/ Main
    \/ RunStart
    \/ StartBatch
    \/ \E i \in 1..MaxParallel, outcome \in Outcomes : SessionResolve(i, outcome)
    \/ TimeoutFire
    \/ Settle
    \/ NotifyBatch
    \/ FinalSummary
    \/ AfterRun
    \/ RetryMerge
    \/ Exit

Spec == Init /\ [][Next]_vars

NextBatches ==
    \/ Main
    \/ RunStart
    \/ StartBatch
    \/ \E i \in 1..MaxParallel, outcome \in Outcomes : SessionResolve(i, outcome)
    \/ TimeoutFire
    \/ Settle
    \/ NotifyBatch
    \/ FinalSummary
    \/ AfterRun
    \/ Exit

SpecBatches == InitBatches /\ [][NextBatches]_vars

\* The event loop runs every continuation that is ready and every timer that
\* is due: a step that stays possible is eventually taken.
SpecBatchesFair == SpecBatches /\ WF_vars(NextBatches)

\* ---- proxy lines: fields of tags, written with ':' and ';' ----
Words == {EmptyString, <<"a">>, <<"b", "a">>}
SoaxExample == << <<<<"h", "o", "s", "t">>>>, <<<<"9", "0", "0", "0">>>>, <<<<"a", "u", "t", "h", "t", "o", "k", "e", "n">>>>, <<<<"w", "i", "f", "i">>, <<"a", "l">>, EmptyString>> >>
StandardExample == << <<<<"h", "o", "s", "t">>>>, <<<<"8", "0">>>>, <<<<"u", "s", "e", "r">>>>, <<<<"p", "a", "s", "s">>>> >>
FieldText(tags) == Join(tags, ";")
LineText(parts) == Join([k \in 1..Len(parts) |-> FieldText(parts[k])], ":")
\* lines of up to ParseFields fields; the 4th field has up to ParseTags tags
TagLists == UNION {[1..t -> Words] : t \in 1..ParseTags}
GeneratedLines ==
    UNION {{[k \in 1..n |-> IF k = 4 THEN f4 ELSE <<w[k]>>] :
               w \in [1..n -> Words], f4 \in TagLists} : n \in 1..ParseFields}

\* the process run is not part of the unit specifications
RunIdle ==
    /\ config = [capsolverApiKey |-> TRUE, parallelSessions |-> 1, retryAttempts |-> 0,
                 telegramBotToken |-> FALSE, telegramChatId |-> FALSE]
    /\ accountsFile = <<>>
    /\ proxies = <<>>
    /\ pc = "main"
    /\ cur = 0
    /\ accounts = <<<<>>, <<>>>>
    /\ stats = <<ZeroStats, ZeroStats>>
    /\ results = <<<<>>, <<>>>>
    /\ accountQueue = <<>>
    /\ batchNumber = 0
    /\ sessions = <<>>
    /\ timeoutFired = FALSE
    /\ executing = {}
    /\ attempts = <<>>
    /\ retryPasses = 0
    /\ batchLog = <<>>
    /\ exitCode = NoExit
    /\ notified = {}
    /\ late = {}

InitParse ==
    /\ proxyParts \in GeneratedLines \cup {SoaxExample, StandardExample}
    /\ \E pad \in {EmptyString, <<" ">>} : proxyString = LineText(proxyParts) \o pad
    /\ parsed = NotParsed
    /\ sm = IdleSm
    /\ task = IdleTask
    /\ RunIdle

\* parseProxy(proxyString)
Parse ==
    /\ parsed.state = "input"
    /\ parsed' = ParseProxy(proxyString)
    /\ UNCHANGED <<proxyParts, proxyString, pollVars, sm, runVars>>

NextParse == Parse

SpecParse == InitParse /\ [][NextParse]_vars

\* ---- the first run with a configured notifier: the sends of
\* processSessionResult, which processBatch does not await, complete later ----
Delivered(kind) == IF kind = "success" THEN "successDelivered" ELSE "errorDelivered"

InitNotify ==
    /\ config \in [capsolverApiKey  : {TRUE},
                   parallelSessions : 1..MaxParallel,
                   retryAttempts    : {0},
                   telegramBotToken : {TRUE},
                   telegramChatId   : {TRUE}]
    /\ \E n \in 1..MaxAccounts : accountsFile = [k \in 1..n |-> k]
    /\ proxies = <<>>
    /\ InitRest

\* the request of a notifyBookingSuccess / notifyError call reaches the sink;
\* nothing waits for it, and it needs the process to be alive
Deliver(kind) ==
    /\ UNCHANGED unitVars
    /\ pc /= "exited"
    /\ kind \in notified
    /\ Delivered(kind) \notin notified
    /\ notified' = notified \cup {Delivered(kind)}
    /\ UNCHANGED <<late, config, accountsFile, proxies, pc, cur, accounts, stats, results,
                   accountQueue, batchNumber, sessions, timeoutFired, executing,
                   attempts, retryPasses, batchLog, exitCode>>

NextNotify ==
    \/ NextBatches
    \/ \E kind \in {"success", "error"} : Deliver(kind)

SpecNotify == InitNotify /\ [][NextNotify]_vars

\* ---- one call of getTaskResult, for every sequence of responses ----
InitPoll ==
    /\ task = [IdleTask EXCEPT !.state = "polling"]
    /\ proxyParts = <<>>
    /\ proxyString = <<>>
    /\ parsed = NotParsed
    /\ sm = IdleSm
    /\ RunIdle

Poll(response) ==
    /\ task.state = "polling"
    /\ task' = AfterPoll(task, response)
    /\ UNCHANGED <<parseVars, sm, runVars>>

NextPoll == \E response \in PollResponses : Poll(response)

SpecPoll == InitPoll /\ [][NextPoll]_vars

\* ---- one SessionManager: new SessionManager(account, proxy, config), execute() ----
ProxyArgs ==
    {NullArg} \cup {[given |-> TRUE, line |-> l] :
                       l \in {LineText(SoaxExample), LineText(StandardExample), <<"a", ":", "b">>}}

InitSession ==
    /\ \E arg \in ProxyArgs, shots \in BOOLEAN :
           sm = [IdleSm EXCEPT !.proxyArg = arg, !.screenshotsOnError = shots,
                               !.pc = "constructor"]
    /\ proxyParts = <<>>
    /\ proxyString = <<>>
    /\ parsed = NotParsed
    /\ task = IdleTask
    /\ RunIdle

\* constructor: this.proxy = proxy ? parseProxy(proxy) : null
Construct ==
    /\ sm.pc = "constructor"
    /\ LET p == IF sm.proxyArg.given THEN ParseProxy(sm.proxyArg.line) ELSE NoProxy
       IN  sm' = IF p.state = "throws"
                 THEN [sm EXCEPT !.pc = "threw"]
                 ELSE [sm EXCEPT !.proxy = p, !.pc = "initBrowser"]
    /\ UNCHANGED <<parseVars, pollVars, runVars>>

\* initBrowser: launch with the proxy argument, new page, proxy
\* authentication, page setup; every fault is rethrown
InitBrowser(outcome) ==
    /\ sm.pc = "initBrowser"
    /\ outcome = "authFault" => sm.proxy /= NoProxy
    /\ LET kinds == IF outcome \in {"launchFault", "pageFault"}
                    THEN {"launch"} ELSE {"launch", "auth"}
           s == [sm EXCEPT !.uses = @ \cup ProxyUses(sm, kinds),
                           !.browser = outcome /= "launchFault",
                           !.page = outcome \notin {"launchFault", "pageFault"}]
       IN  sm' = IF outcome = "ok"
                 THEN StepDone(s, "initBrowser", "login")
                 ELSE StepThrows(s, "initBrowser", outcome)
    /\ UNCHANGED <<parseVars, pollVars, runVars>>

\* login, catch: screenshot 'login_error', then the fault is rethrown
LoginThrows(s, msg) == StepThrows(TakeScreenshot(s, "login_error"), "login", msg)

\* login: one pass of the navigation loop (goto + waitForSelector)
LoginNavigate(ok) ==
    /\ sm.pc = "login"
    /\ sm.navAttempt < NavAttempts
    /\ LET attempt == sm.navAttempt + 1
           s == [sm EXCEPT !.navAttempt = attempt]
       IN  sm' = IF ok
                 THEN [Logged(s, <<Numbered("goto", attempt)>>) EXCEPT !.pc = "login.type"]
                 ELSE LET w == Logged(s, <<Numbered("gotoFailed", attempt)>> \o NavWait(attempt))
                      IN  IF attempt < NavAttempts THEN w
                          ELSE LoginThrows(w, "Failed to navigate after 3 attempts")
    /\ UNCHANGED <<parseVars, pollVars, runVars>>

\* login: the credentials are typed before the challenge is looked for
LoginType(ok) ==
    /\ sm.pc = "login.type"
    /\ sm' = IF ok THEN [Logged(sm, <<Event("type")>>) EXCEPT !.pc = "login.captcha"]
             ELSE LoginThrows(sm, "typeFault")
    /\ UNCHANGED <<parseVars, pollVars, runVars>>

\* detectAndSolve: one pass of its loop.  The page is scanned for a
\* challenge; a challenge found is handed to the solver together with
\* proxyInfo (createTask, then getTaskResult, which itself swallows `polls`
\* failed polls), and the token is injected.  A fault in any of these is
\* caught: the loop sleeps 3 s and tries again, and only the fault of the
\* last pass is rethrown.
\* detectAndSolve, catch: throw error if (attempt === maxRetries - 1), else
\* sleep(3000) and go round again; login's catch sees what is thrown
PassFailedSwallowed(s, attempt, outcome) ==
    IF attempt = MaxRetries THEN [s EXCEPT !.pc = "login.submit"]
    ELSE Logged(s, <<Sleep(3000)>>)
PassFailed(s, attempt, outcome) ==
    IF attempt = MaxRetries THEN LoginThrows(s, outcome)
    ELSE Logged(s, <<Sleep(3000)>>)
DetectOutcomes == {"none", "solved", "detectFault", "createFault", "pollFault"}
DetectAndSolve(outcome, polls) ==
    /\ sm.pc = "login.captcha"
    /\ sm.captchaAttempt < MaxRetries
    /\ polls > 0 => outcome = "solved"
    /\ LET attempt == sm.captchaAttempt + 1
           called == outcome \in {"solved", "createFault", "pollFault"}
           faulty == outcome \in {"createFault", "pollFault"}
           s1 == [sm EXCEPT !.captchaAttempt = attempt,
                            !.solverCalls = IF called THEN @ + 1 ELSE @,
                            !.solverFaults = @ + (IF faulty THEN 1 ELSE 0) + polls,
                            !.uses = @ \cup IF called THEN {<<"solver", SolverProxy(sm)>>}
                                            ELSE {}]
           s2 == Logged(s1, <<Numbered("detect", attempt)>>
                            \o (IF called THEN <<Numbered("solve", attempt)>> ELSE <<>>)
                            \o [k \in 1..polls |-> Event("pollFailed")]
                            \o (IF faulty THEN <<Event("solveFailed")>> ELSE <<>>)
                            \o (IF outcome = "solved" THEN <<Event("inject")>> ELSE <<>>))
       IN  sm' = IF outcome \in {"none", "solved"}
                 THEN [s2 EXCEPT !.pc = "login.submit"]
                 ELSE PassFailed(s2, attempt, outcome)
    /\ UNCHANGED <<parseVars, pollVars, runVars>>

\* login: what the in-page submission resolves to.  The request is not sent
\* when the challenge response or a credential field is empty.
NotSent == {"emptyCaptcha", "missingCredentials"}
Rejections == {"challenge-rejected", "security-block", "rate-limited"}
SubmitOutcomes ==
    {"ok", "error", "httpError", "parseError", "networkError"} \cup Rejections \cup NotSent
\* the message of the Error thrown for !loginResult.success; the server
\* may or may not send a description with its response
LoginErrorPlain(outcome, described) ==
    IF described THEN "Login failed: <description>" ELSE "Login failed: Unknown error"
LoginError(outcome, described) ==
    CASE outcome = "rate-limited" -> "Login failed: Rate limit exceeded - account blocked"
      [] outcome = "challenge-rejected" ->
             IF described THEN "Login failed: CAPTCHA validation failed: <description>"
             ELSE "Login failed: CAPTCHA validation failed: Invalid token"
      [] outcome = "security-block" ->
             IF described THEN "Login failed: <description>"
             ELSE "Login failed: Security block"
      [] outcome = "error" ->
             IF described THEN "Login failed: <description>"
             ELSE "Login failed: Login failed"
      [] outcome = "httpError" -> "Login failed: HTTP <status>: <statusText>"
      [] outcome = "parseError" -> "Login failed: Parse error"
      [] outcome = "networkError" -> "Login failed: Network error"
      [] outcome = "emptyCaptcha" ->
             "Login failed: CAPTCHA response is empty - token not retrieved properly"
      [] outcome = "missingCredentials" -> "Login failed: Missing credentials"

\* what grecaptcha.enterprise.getResponse() gives inside the page, '' also
\* when grecaptcha is not there or the call throws
Tokens == {"empty", "present"}
\* the in-page promise resolves 'CAPTCHA response is empty' before anything
\* else when the token is empty, and never otherwise
ResolvesUnvalidated(token, outcome) == outcome /= "emptyCaptcha"
Resolves(token, outcome) == (outcome = "emptyCaptcha") <=> (token = "empty")

\* login: screenshot 'before_login', then the submission
LoginSubmit(token, outcome, described) ==
    /\ sm.pc = "login.submit"
    /\ Resolves(token, outcome)
    /\ described => outcome \in {"challenge-rejected", "security-block", "error"}
    /\ LET s1 == [TakeScreenshot(sm, "before_login") EXCEPT !.token = token]
           s2 == IF outcome \in NotSent THEN s1
                 ELSE Logged(s1, <<[ev |-> "submit", n |-> 0, name |-> outcome]>>)
       IN  sm' = IF outcome = "ok"
                 THEN [s2 EXCEPT !.pc = "login.verify"]
                 ELSE LoginThrows(TakeScreenshot(s2, "login_ajax_failed"),
                                  LoginError(outcome, described))
    /\ UNCHANGED <<parseVars, pollVars, runVars>>

\* login: after the reload the url must not be the Authentication page
LoginVerifyTrusting(outcome) ==
    /\ sm.pc = "login.verify"
    /\ LET s == Logged(sm, <<[ev |-> "reload", n |-> 0, name |-> outcome]>>)
       IN  sm' = IF outcome = "reloadFault" THEN LoginThrows(s, outcome)
                 ELSE StepDone(s, "login", "fillQuestionario")
    /\ UNCHANGED <<parseVars, pollVars, runVars>>
LoginVerify(outcome) ==
    /\ sm.pc = "login.verify"
    /\ LET s == Logged(sm, <<[ev |-> "reload", n |-> 0, name |-> outcome]>>)
       IN  sm' = CASE outcome = "ok" -> StepDone(s, "login", "fillQuestionario")
                   [] outcome = "stillOnAuth" ->
                          LoginThrows(TakeScreenshot(s, "still_on_auth_page"),
                              "Login appeared successful but still on authentication page")
                   [] outcome = "reloadFault" -> LoginThrows(s, outcome)
    /\ UNCHANGED <<parseVars, pollVars, runVars>>

FillQuestionario(ok) ==
    /\ sm.pc = "fillQuestionario"
    /\ sm' = IF ok THEN StepDone(sm, "fillQuestionario", "fillFormulario")
             ELSE StepThrows(TakeScreenshot(sm, "questionario_error"),
                             "fillQuestionario", "questionarioFault")
    /\ UNCHANGED <<parseVars, pollVars, runVars>>

\* fillFormulario: wait for the form, setValue for each field (a selector
\* that matches nothing is skipped), form.submit(), wait for the navigation
RequiredFields == {"passaporte", "consulate"}
SetValues(s, missing) == Logged([s EXCEPT !.missing = missing], <<Event("setValues")>>)
FillFormulario(outcome, missing) ==
    /\ sm.pc = "fillFormulario"
    /\ outcome = "formFault" => missing = {}
    /\ LET thrown(s, msg) == StepThrows(TakeScreenshot(s, "formulario_error"),
                                        "fillFormulario", msg)
           v == SetValues(sm, missing)
           submitted == Logged(v, <<Event("submitForm")>>)
       IN  sm' = CASE outcome = "formFault" -> thrown(sm, "formularioFault")
                   [] outcome = "submitFault" -> thrown(submitted, "formularioFault")
                   [] OTHER -> StepDone(submitted, "fillFormulario", "searchAppointments")
    /\ UNCHANGED <<parseVars, pollVars, runVars>>

SearchAppointments(ok) ==
    /\ sm.pc = "searchAppointments"
    /\ sm' = IF ok THEN StepDone(sm, "searchAppointments", "bookAppointment")
             ELSE StepThrows(TakeScreenshot(sm, "search_error"),
                             "searchAppointments", "searchFault")
    /\ UNCHANGED <<parseVars, pollVars, runVars>>

\* bookAppointment: slot scan, confirmation click, confirmation details
BookingOutcomes ==
    {"booked", "No slots available", "scanFault", "Confirm button not found", "detailsFault"}
BookAppointment(outcome) ==
    /\ sm.pc = "bookAppointment"
    /\ LET scanned == Logged(sm, <<Event("scanSlots")>>)
           clicked == Logged(scanned, <<Event("clickSlot")>>)
           confirmed == Logged(clicked, <<Event("clickConfirm")>>)
           caught(s) == BookingCaught(TakeScreenshot(s, "booking_error"), outcome)
       IN  sm' = CASE outcome = "booked" ->
                          [StepDone(TakeScreenshot(confirmed, "booking_success"),
                                    "bookAppointment", "cleanup")
                              EXCEPT !.result = Succeeded]
                   [] outcome = "No slots available" ->
                          [StepDone(scanned, "bookAppointment", "cleanup")
                              EXCEPT !.result = Failed(outcome)]
                   [] outcome = "scanFault" -> caught(sm)
                   [] outcome = "Confirm button not found" -> caught(clicked)
                   [] outcome = "detailsFault" -> caught(confirmed)
    /\ UNCHANGED <<parseVars, pollVars, runVars>>

\* cleanup(): browser.close() if there is a browser; a fault of close() is
\* caught and logged
CloseBrowserUncaught(s, closeOk) ==
    IF ~s.browser THEN s
    ELSE IF closeOk THEN Logged(s, <<Event("close")>>)
    ELSE [Logged(s, <<Event("close")>>)
             EXCEPT !.closeFault = TRUE, !.result = Errored("closeFault")]
CloseBrowser(s, closeOk) ==
    IF ~s.browser THEN s
    ELSE IF closeOk THEN Logged(s, <<Event("close")>>)
    ELSE [Logged(s, <<Event("close"), Event("warn")>>) EXCEPT !.closeFault = TRUE]

\* finally: cleanup(), then the result is handed to the caller
CleanupUnlessThrown(closeOk) ==
    /\ sm.pc = "cleanup"
    /\ ~closeOk => sm.browser
    /\ sm' = IF sm.result.status = "error" THEN [sm EXCEPT !.pc = "done"]
             ELSE [CloseBrowser(sm, closeOk) EXCEPT !.cleanups = @ + 1, !.pc = "done"]
    /\ UNCHANGED <<parseVars, pollVars, runVars>>
Cleanup(closeOk) ==
    /\ sm.pc = "cleanup"
    /\ ~closeOk => sm.browser
    /\ sm' = [CloseBrowser(sm, closeOk) EXCEPT !.cleanups = @ + 1, !.pc = "done"]
    /\ UNCHANGED <<parseVars, pollVars, runVars>>

\* the orchestrator's timeoutPromise wins the race while execute() is
\* running: 'timeout' is recorded, the SessionManager is left alone
RaceTimeout ==
    /\ sm.pc \notin {"idle", "constructor", "threw", "done"}
    /\ ~sm.timedOut
    /\ sm' = [sm EXCEPT !.timedOut = TRUE]
    /\ UNCHANGED <<parseVars, pollVars, runVars>>

NextSession ==
    \/ Construct
    \/ \E outcome \in {"ok", "launchFault", "pageFault", "authFault", "setupFault"} :
           InitBrowser(outcome)
    \/ \E ok \in BOOLEAN : LoginNavigate(ok)
    \/ \E ok \in BOOLEAN : LoginType(ok)
    \/ \E outcome \in DetectOutcomes, polls \in 0..MaxPollFaults : DetectAndSolve(outcome, polls)
    \/ \E token \in Tokens, outcome \in SubmitOutcomes, described \in BOOLEAN :
           LoginSubmit(token, outcome, described)
    \/ \E outcome \in {"ok", "stillOnAuth", "reloadFault"} : LoginVerify(outcome)
    \/ \E ok \in BOOLEAN : FillQuestionario(ok)
    \/ \E outcome \in {"ok", "formFault", "submitFault"}, missing \in {{}} \cup {{f} : f \in RequiredFields} :
           FillFormulario(outcome, missing)
    \/ \E ok \in BOOLEAN : SearchAppointments(ok)
    \/ \E outcome \in BookingOutcomes : BookAppointment(outcome)
    \/ \E closeOk \in BOOLEAN : Cleanup(closeOk)
    \/ RaceTimeout

SpecSession == InitSession /\ [][NextSession]_vars

NextPlan ==
    \/ Main
    \/ RunStart
    \/ StartBatch
    \/ \E i \in 1..PlanParallel : SessionResolve(i, "failed")
    \/ Settle
    \/ NotifyBatch
    \/ FinalSummary
    \/ AfterRun
    \/ Exit

SpecPlan == InitPlan /\ [][NextPlan]_vars

\* ======================================================================
\* Properties
\* ======================================================================

\* the batch being settled occupies the last Len(sessions) places of results
Base == Len(results[cur]) - Len(sessions)
Raised(s) == s.ret \in {"raise", "ctor"}
SumOutcomes(st) == st.success + st.failed + st.errors

RECURSIVE Flatten(_)
Flatten(ss) == IF ss = <<>> THEN <<>> ELSE Head(ss) \o Flatten(Tail(ss))

\* C1: at every observation point of a run (batch status update, final
\* summary) success + failed + errors + pending equals total, the number of
\* accounts given to that run.
C1_CounterConservation ==
    pc \in {"notify", "summary"} =>
        /\ SumOutcomes(stats[cur]) + stats[cur].pending = stats[cur].total
        /\ stats[cur].total = Len(accounts[cur])

C1_Witness ==
    /\ pc = "notify"
    /\ stats[cur].pending > 0
    /\ \E k \in 1..Len(results[cur]) : results[cur][k].status = "timeout"

\* C2: after a full process run, retry pass and merge included, the parent's
\* counters satisfy success + failed + errors = total.
C2_FinalCounters ==
    pc = "exit" => SumOutcomes(stats[1]) = stats[1].total

\* C3: in a batch of N tasks where exactly one raises (a rejection of
\* execute or a fault of the constructor) and all others return, N outcomes
\* are recorded, Errored for the raising task and every other exactly as
\* returned.
C3_FaultIsolation ==
    (/\ pc = "notify"
     /\ Cardinality({i \in 1..Len(sessions) : Raised(sessions[i])}) = 1
     /\ \A i \in 1..Len(sessions) : ~Raised(sessions[i]) => sessions[i].ret \in Returned)
    =>
        /\ Len(results[cur]) = Len(accounts[cur]) - Len(accountQueue)
        /\ Base >= 0
        /\ \A i \in 1..Len(sessions) :
              /\ results[cur][Base + i].account = sessions[i].account.username
              /\ results[cur][Base + i].status =
                    IF Raised(sessions[i]) THEN "error" ELSE sessions[i].ret

C3_Witness ==
    /\ pc = "notify"
    /\ Len(sessions) = 2
    /\ sessions[1].ret = "ctor"
    /\ sessions[2].ret = "success"
    /\ results[cur][Base + 2].status = "success"

\* C4: a task whose state machine has produced nothing when the shared
\* timeout fires is recorded with exactly one outcome, of kind timeout and
\* counted in errors; once the timeout has fired no race of the batch is
\* open; a task that finished before keeps its own outcome.
C4_TimeoutOutcome ==
    /\ timeoutFired => Pending(sessions) = {}
    /\ pc = "notify" =>
          /\ Len(results[cur]) = Len(accounts[cur]) - Len(accountQueue)
          /\ Base >= 0
          /\ \A i \in 1..Len(sessions) :
                /\ sessions[i].ret = "none" => results[cur][Base + i].status = "timeout"
                /\ sessions[i].ret \in Returned => results[cur][Base + i].status = sessions[i].ret
          /\ stats[cur].errors =
                Cardinality({k \in 1..Len(results[cur]) :
                                results[cur][k].status \notin {"success", "failed"}})

C4_Witness ==
    /\ pc = "notify"
    /\ timeoutFired
    /\ Len(sessions) = 2
    /\ sessions[1].ret = "none"
    /\ sessions[2].ret = "success"
    /\ results[cur][Base + 1].status = "timeout"

\* C5: the account list handed to the retry pass contains no account whose
\* outcome in the parent run was Failed or Success.
C5_RetryOnlyErrored ==
    retryPasses > 0 =>
        \A k \in 1..Len(accounts[2]) :
            results[1][accounts[2][k].id].status \in {"error", "timeout"}

\* C6: at most one retry pass per process run, and every account is
\* attempted at most twice.
C6_AtMostTwoAttempts ==
    /\ retryPasses <= 1
    /\ \A id \in DOMAIN attempts : attempts[id] <= 2

\* C7: the exit code is 0 if and only if a Success outcome was recorded in
\* the first run or in the retry pass, and 1 in every other case.
C7_ExitCode ==
    pc = "exited" =>
        /\ exitCode \in {0, 1}
        /\ exitCode = 0 <=>
              \E l \in 1..2 : \E k \in 1..Len(results[l]) : results[l][k].status = "success"

\* C8: with batches and tasks counted from 0, the task at (batchIndex,
\* taskIndex) gets proxies[(batchIndex * batchSize + taskIndex) mod len].
C8_ZeroBasedRoundRobin ==
    \A i \in 1..Len(sessions) :
        Len(proxies) > 0 =>
            sessions[i].proxyIndex =
                ((batchNumber - 1) * config.parallelSessions + (i - 1)) % Len(proxies)

\* C9: for a non-empty proxy list the computed index lies in
\* 0..len(proxies)-1 and the task gets that entry; for an empty list every
\* task gets no proxy and its state machine is still constructed and run.
C9_ProxyInRange ==
    \A i \in 1..Len(sessions) :
        IF Len(proxies) > 0
        THEN /\ sessions[i].proxyIndex \in 0..(Len(proxies) - 1)
             /\ sessions[i].proxy = proxies[sessions[i].proxyIndex + 1]
        ELSE /\ sessions[i].proxy = NullProxy
             /\ sessions[i].ret /= "ctor"
             /\ sessions[i].status = "pending" => Task(cur, sessions[i]) \in executing

C9_Witness ==
    /\ Len(proxies) = 3
    /\ batchNumber = 2
    /\ Len(sessions) = 5
    /\ sessions[5].proxyIndex = 2
    /\ sessions[5].proxy = proxies[3]

\* C10: run() splits the account list, in order, into consecutive batches:
\* each has parallelSessions accounts except possibly the last, which has
\* the remainder; no account is in two batches and none is skipped; 12
\* accounts with batch size 5 give batches of sizes 5, 5, 2.
C10_ConsecutiveBatches ==
    pc \in {"loop", "batch", "notify", "summary"} =>
        /\ Flatten(batchLog) \o Ids(accountQueue) = Ids(accounts[cur])
        /\ \A k \in 1..Len(batchLog) :
              /\ Len(batchLog[k]) \in 1..config.parallelSessions
              /\ (k < Len(batchLog) \/ Len(accountQueue) > 0)
                    => Len(batchLog[k]) = config.parallelSessions
        /\ (Len(accounts[cur]) = 12 /\ config.parallelSessions = 5 /\ pc = "summary")
              => [k \in 1..Len(batchLog) |-> Len(batchLog[k])] = <<5, 5, 2>>

C10_Witness ==
    /\ pc = "summary"
    /\ Len(accounts[cur]) = 12
    /\ config.parallelSessions = 5
    /\ [k \in 1..Len(batchLog) |-> Len(batchLog[k])] = <<5, 5, 2>>

\* accounts spliced off the queue by the active run(), in dispatch order
Dispatched == Flatten(batchLog)

\* C11: full barrier between batches.  A batch is started only when every
\* task of the batches started before it in this run has a recorded outcome
\* (returned, raised or timed out) and those outcomes are merged into the
\* counters: no session is open, one result per dispatched account, in
\* dispatch order, and the counters tally exactly those results.
C11_BatchBarrier ==
    [][pc = "loop" /\ pc' = "batch" =>
          /\ Pending(sessions) = {}
          /\ Len(results[cur]) = Len(Dispatched)
          /\ \A k \in 1..Len(Dispatched) :
                 /\ results[cur][k].account = accounts[cur][k].username
                 /\ results[cur][k].status \in Returned \cup {"timeout"}
          /\ SumOutcomes(stats[cur]) = Len(Dispatched)
          /\ stats[cur].pending = stats[cur].total - Len(Dispatched)]_vars
\* a second batch is running after a first one that held a timed-out task
C11_Witness ==
    /\ pc = "batch"
    /\ batchNumber = 2
    /\ Pending(sessions) /= {}
    /\ \E k \in 1..Len(results[cur]) : results[cur][k].status = "timeout"

\* C12: at every moment of a process run the number of task state machines
\* that are executing (execute() started, cleanup not finished) is at most
\* parallelSessions, also after the batch timeout has fired and the next
\* batch or the retry pass has started.
C12_ConcurrencyBound ==
    cur >= 1 => Cardinality(executing) <= config.parallelSessions

\* every account of the run was dispatched once and has one recorded outcome
RunComplete ==
    /\ Dispatched = Ids(accounts[cur])
    /\ Len(results[cur]) = Len(accounts[cur])
    /\ \A k \in 1..Len(accounts[cur]) :
           /\ results[cur][k].account = accounts[cur][k].username
           /\ results[cur][k].status \in Returned \cup {"timeout"}

C14_FatalConfiguration ==
    (\/ ~config.capsolverApiKey
     \/ config.parallelSessions < 1
     \/ config.parallelSessions > MaxParallelSessions
     \/ Len(accountsFile) = 0)
    => /\ pc \in {"main", "exited"}
       /\ exitCode = IF pc = "exited" THEN 1 ELSE NoExit
       /\ cur = 0
       /\ accounts = <<<<>>, <<>>>>
       /\ sessions = <<>>
       /\ executing = {}
       /\ \A k \in DOMAIN attempts : attempts[k] = 0
\* the process has exited on a parallelSessions above the maximum
C14_Witness ==
    /\ pc = "exited"
    /\ exitCode = 1
    /\ config.capsolverApiKey
    /\ config.parallelSessions > MaxParallelSessions
    /\ Len(accountsFile) > 0

\* the counters that a list of recorded results amounts to
Tally(rs, total) ==
    LET n(S) == Cardinality({k \in 1..Len(rs) : rs[k].status \in S})
    IN  [total   |-> total,
         success |-> n({"success"}),
         failed  |-> n({"failed"}),
         pending |-> total - Len(rs),
         errors  |-> n({"error", "timeout"})]

\* C15: when the bot token or the chat id is absent the notification sink
\* is disabled: no started, batch-status, success or error notification is
\* ever sent, the run is not ended by the notifier and processes every
\* account, and its counters are the tally of the recorded outcomes, the
\* same function of the outcomes as in a run with notifications enabled.
C15_NotifierDisabled ==
    /\ (~config.telegramBotToken \/ ~config.telegramChatId) =>
           /\ notified = {}
           /\ pc \in {"returned", "exit", "exited"} => RunComplete
    /\ (cur >= 1 /\ pc \in {"notify", "summary", "returned"}) =>
           stats[cur] = Tally(results[cur], Len(accounts[cur]))
\* a run with the chat id alone returned with a success and an error recorded
C15_Witness ==
    /\ ~config.telegramBotToken
    /\ config.telegramChatId
    /\ pc = "returned"
    /\ RunComplete
    /\ {"success", "error"} \subseteq {results[cur][k].status : k \in 1..Len(results[cur])}

\* the written fields of the parsed line, 1-based; absent fields are empty
Field(k) == IF k \in DOMAIN proxyParts THEN FieldText(proxyParts[k]) ELSE EmptyString
\* the 4th field of the line contains a semicolon
SemicolonIn4th == 4 \in DOMAIN proxyParts /\ Len(proxyParts[4]) >= 2
\* what the two example lines of the documentation must give
ParseExamples ==
    /\ Trim(proxyString) = <<"h", "o", "s", "t", ":", "9", "0", "0", "0", ":", "a", "u", "t", "h", "t", "o", "k", "e", "n", ":", "w", "i", "f", "i", ";", "a", "l", ";">> =>
           /\ parsed.host = <<"h", "o", "s", "t">>
           /\ parsed.port = <<"9", "0", "0", "0">>
           /\ parsed.username = <<"a", "u", "t", "h", "t", "o", "k", "e", "n">>
           /\ parsed.password = EmptyString
           /\ parsed.country = <<"a", "l">>
    /\ Trim(proxyString) = <<"h", "o", "s", "t", ":", "8", "0", ":", "u", "s", "e", "r", ":", "p", "a", "s", "s">> =>
           /\ parsed.host = <<"h", "o", "s", "t">>
           /\ parsed.port = <<"8", "0">>
           /\ parsed.username = <<"u", "s", "e", "r">>
           /\ parsed.password = <<"p", "a", "s", "s">>
           /\ parsed.country = Unknown

\* C16 as stated: parseProxy detects the layout from the 4th colon-delimited
\* field.  With a semicolon in it: SOAX, username = 3rd field, password
\* empty, region = the second semicolon-separated tag (unknown if absent);
\* otherwise standard, username = 3rd field, password = 4th field, region
\* unknown; the two example lines give the documented records.
C16_ParseProxyLayout ==
    parsed.state = "ok" =>
       /\ parsed.host = Field(1)
       /\ parsed.port = Field(2)
       /\ parsed.username = Field(3)
       /\ IF SemicolonIn4th
          THEN /\ parsed.format = "soax"
               /\ parsed.password = EmptyString
               /\ parsed.country = IF proxyParts[4][2] /= EmptyString
                                   THEN proxyParts[4][2] ELSE Unknown
          ELSE /\ parsed.format = "standard"
               /\ parsed.password = Field(4)
               /\ parsed.country = Unknown
       /\ ParseExamples

\* C16 amended: as above, but the region of the SOAX layout is the second
\* NON-EMPTY semicolon-separated tag of the 4th field, unknown when the
\* field has fewer than two non-empty tags.
C16_ParseProxyLayoutNonEmptyTags ==
    parsed.state = "ok" =>
       /\ parsed.host = Field(1)
       /\ parsed.port = Field(2)
       /\ parsed.username = Field(3)
       /\ IF SemicolonIn4th
          THEN /\ parsed.format = "soax"
               /\ parsed.password = EmptyString
               /\ parsed.country = IF Len(NonEmpty(proxyParts[4])) >= 2
                                   THEN NonEmpty(proxyParts[4])[2] ELSE Unknown
          ELSE /\ parsed.format = "standard"
               /\ parsed.password = Field(4)
               /\ parsed.country = Unknown
       /\ ParseExamples
\* a parsed SOAX line whose 4th field starts with an empty tag
C16_Witness ==
    /\ parsed.state = "ok"
    /\ SemicolonIn4th
    /\ proxyParts[4] = <<EmptyString, <<"a">>, <<"b", "a">>>>
    /\ parsed.country = <<"b", "a">>

\* C17: within one batch no two tasks are assigned the same proxy entry
\* whenever the proxy list has at least parallelSessions entries; this holds
\* for every batch, the shorter last batch included.
C17_DistinctProxiesInBatch ==
    Len(proxies) >= config.parallelSessions =>
        \A i, j \in 1..Len(sessions) :
            i /= j => /\ sessions[i].proxy /= NullProxy
                      /\ sessions[i].proxy.line /= sessions[j].proxy.line
\* a full second batch of four tasks on five proxies, wrapping around the list
C17_Witness ==
    /\ Len(proxies) = 5
    /\ config.parallelSessions = 4
    /\ batchNumber = 2
    /\ [i \in 1..Len(sessions) |-> sessions[i].proxy.line] = <<4, 5, 1, 2>>

\* the proxy chosen when the SessionManager was created
ChosenProxy == IF sm.proxyArg.given THEN ParseProxy(sm.proxyArg.line) ELSE NoProxy
\* execute() has ended its steps: the outcome is built
Ended == sm.pc \in {"cleanup", "done"}

\* C18: a task is bound to at most one proxy for its whole lifetime.  From
\* the start of execute() to its outcome this.proxy is the proxy chosen at
\* creation, and the browser launch, the proxy authentication and every
\* CAPTCHA-solver call use that proxy and no other.
C18_OneProxyPerTask ==
    sm.pc \notin {"idle", "constructor", "threw"} =>
        /\ sm.proxy = ChosenProxy
        /\ \A u \in sm.uses : u[2] = ChosenProxy
        /\ (sm.proxy /= NoProxy /\ Len(sm.steps) >= 1) => \E u \in sm.uses : u[1] = "launch"
        /\ sm.solverCalls > 0 => <<"solver", ChosenProxy>> \in sm.uses
\* a task on the SOAX line ended after launch, authentication and two solver calls
C18_Witness ==
    /\ sm.pc = "done"
    /\ sm.proxyArg.line = LineText(SoaxExample)
    /\ sm.proxy.format = "soax"
    /\ sm.solverCalls = 2
    /\ {u[1] : u \in sm.uses} = {"launch", "auth", "solver"}

\* C19: execute() runs initBrowser, login, fillQuestionario, fillFormulario,
\* searchAppointments, bookAppointment strictly in this order, each at most
\* once and each only after the previous one completed; an unrecoverable
\* error in any step ends the task at once with an Errored outcome that
\* carries the error message, and no later step is executed.
C19_StepOrder ==
    /\ \E n \in 0..Len(Steps) : sm.steps = SubSeq(Steps, 1, n)
    /\ sm.fault /= NoFault =>
           /\ Ended
           /\ sm.steps[Len(sm.steps)] = sm.fault.step
           /\ sm.result = Errored(sm.fault.message)

\* C20: in the booking step, when a slot was found and selected but no
\* confirmation control exists, or any other fault is raised during booking,
\* the outcome is Errored, counted in errors and eligible for the retry
\* pass, not Failed.
C20_BookingFaultIsError ==
    (Ended /\ sm.fault.step = "bookAppointment") =>
        /\ sm.result.status = "error"
        /\ ProcessSessionResult([ZeroStats EXCEPT !.total = 1, !.pending = 1],
                                sm.result.status).errors = 1
        /\ IsRetryStatus(sm.result)

\* the snapshots in the trace, and whether an event occurs in it
Screenshots == {k \in DOMAIN sm.log : sm.log[k].ev = "screenshot"}
Occurs(e) == \E k \in DOMAIN sm.log : sm.log[k].ev = e
\* the slot scan ran to its end and found no available-slot indicator
NoSlotFound ==
    /\ Ended
    /\ Len(sm.steps) = Len(Steps)
    /\ sm.fault = NoFault
    /\ ~Occurs("clickSlot")
\* execute() of a task without a slot: Failed 'No slots available', counted
\* in failed, not notified as an error, no confirmation click, and the
\* result itself is not one retryFailed selects
NoSlotsOutcome ==
    NoSlotFound =>
        /\ sm.result = Failed("No slots available")
        /\ LET st == ProcessSessionResult([ZeroStats EXCEPT !.total = 1, !.pending = 1],
                                          sm.result.status)
           IN  st.failed = 1 /\ st.errors = 0
        /\ \A c \in [capsolverApiKey : {TRUE}, parallelSessions : {1}, retryAttempts : {0},
                     telegramBotToken : BOOLEAN, telegramChatId : BOOLEAN] :
               ResultNotification(c, sm.result.status) = {}
        /\ ~Occurs("clickConfirm")
        /\ ~IsRetryStatus(sm.result)

\* C21: when the slot scan finds no available-slot indicator the outcome is
\* Failed 'No slots available', counted in failed and not in errors, no
\* error notification is sent, no confirmation is attempted, and the
\* account is not included in the retry pass: no account of the retry pass
\* has a Failed outcome in the parent run.
C21_NoSlotsIsFailed ==
    retryPasses > 0 =>
        \A k \in 1..Len(accounts[2]) : results[1][accounts[2][k].id].status /= "failed"

\* the passes of login's navigation loop in the trace
NavEvents == {k \in DOMAIN sm.log : sm.log[k].ev \in {"goto", "gotoFailed"}}
NavigationError == "Failed to navigate after 3 attempts"

\* C22: navigation to the login page is attempted at most 3 times per task;
\* after failed attempt n (n = 1, 2) the task waits n * 2 seconds before
\* attempt n + 1, the first successful attempt stops the loop, and a
\* navigation error is declared only after exactly 3 failed attempts, with
\* no wait after the third.
C22_NavigationBackoff ==
    /\ Cardinality(NavEvents) = sm.navAttempt
    /\ sm.navAttempt <= 3
    /\ \A k \in NavEvents :
           LET e == sm.log[k]
           IN  /\ e.n = Cardinality({j \in NavEvents : j <= k})
               /\ (e.ev = "gotoFailed" /\ e.n < 3) =>
                      /\ k + 1 \in DOMAIN sm.log
                      /\ sm.log[k + 1] = Sleep(e.n * 2000)
                      /\ k + 2 \in DOMAIN sm.log => k + 2 \in NavEvents
               /\ (e.ev = "gotoFailed" /\ e.n = 3) =>
                      (k + 1 \in DOMAIN sm.log => sm.log[k + 1].ev /= "sleep")
               /\ e.ev = "goto" => \A j \in NavEvents : j <= k
    /\ sm.fault.message = NavigationError <=>
           \A n \in 1..3 : \E k \in NavEvents : sm.log[k] = Numbered("gotoFailed", n)
\* a task that ended after three failed navigation attempts: two waits,
\* then the browser is closed
C22_Witness ==
    /\ sm.pc = "done"
    /\ sm.fault = [step |-> "login", message |-> NavigationError]
    /\ ~sm.screenshotsOnError
    /\ sm.log = <<Numbered("gotoFailed", 1), Sleep(2000),
                  Numbered("gotoFailed", 2), Sleep(4000),
                  Numbered("gotoFailed", 3), Event("close")>>

\* how often an event occurs in the trace
Times(e) == Cardinality({k \in DOMAIN sm.log : sm.log[k].ev = e})

\* C23: only navigation failures are retried inside a task: nothing but the
\* navigation is attempted a second time, and a failure of the CAPTCHA
\* collaborator (task creation error, poll error, unexpected status) ends
\* the task with an Errored outcome on its first occurrence.
C23_OnlyNavigationRetried ==
    /\ Times("detect") <= 1
    /\ Times("solve") <= 1
    /\ sm.solverFaults > 0 =>
           /\ sm.solverFaults = 1
           /\ Ended
           /\ sm.result.status = "error"

\* the faults with which detectAndSolve rejects
CaptchaFaults == {"detectFault", "createFault", "pollFault"}

Submissions == {k \in DOMAIN sm.log : sm.log[k].ev = "submit"}
\* the messages login can throw for a submission outcome
LoginErrors(outcome) == {LoginError(outcome, described) : described \in BOOLEAN}

LaterEvents == {"setValues", "submitForm", "scanSlots", "clickSlot", "clickConfirm"}
StillOnAuth == "Login appeared successful but still on authentication page"

\* C26: if the login submission reports success but, after the reload, the
\* page is still the authentication screen, the task ends Errored and
\* neither form step nor the search or booking step is executed.
C26_StillOnAuthenticationScreen ==
    \A k \in DOMAIN sm.log :
        (sm.log[k].ev = "reload" /\ sm.log[k].name = "stillOnAuth") =>
            /\ \E j \in Submissions : j < k /\ sm.log[j].name = "ok"
            /\ Ended
            /\ sm.result = Errored(StillOnAuth)
            /\ sm.steps = <<"initBrowser", "login">>
            /\ \A j \in DOMAIN sm.log : sm.log[j].ev \notin LaterEvents
\* the submission was accepted, the reloaded page is the authentication
\* screen, and execute() has returned
C26_Witness ==
    /\ sm.pc = "done"
    /\ sm.fault = [step |-> "login", message |-> StillOnAuth]
    /\ \E k \in DOMAIN sm.log : sm.log[k].ev = "reload" /\ sm.log[k].name = "stillOnAuth"

\* C27: for every way execute() ends (Success, Failed, or Errored raised in
\* any step, including a failure while initialising the browser), cleanup()
\* is invoked exactly once before the outcome is delivered, and every
\* browser that was launched is asked to close; a task whose outcome was
\* recorded as timeout still runs its cleanup when its state machine ends.
C27_CleanupAlways ==
    /\ sm.pc = "done" =>
           /\ sm.result.status \in {"success", "failed", "error"}
           /\ sm.cleanups = 1
           /\ Times("close") = IF sm.browser THEN 1 ELSE 0
           /\ sm.browser => sm.log[Len(sm.log) - (IF sm.closeFault THEN 1 ELSE 0)] = Event("close")
    /\ sm.pc /= "done" => sm.cleanups = 0 /\ Times("close") = 0
\* the browser was launched, opening the page failed, the orchestrator's
\* timeout fired meanwhile: the browser is closed when execute() ends
C27_Witness ==
    /\ sm.pc = "done"
    /\ sm.timedOut
    /\ sm.fault.step = "initBrowser"
    /\ sm.browser
    /\ sm.cleanups = 1
    /\ sm.log = <<Event("close")>>

\* C28: a failure while closing the browser in cleanup() is only logged: the
\* outcome execute() returns is the outcome built before cleanup, the same
\* as when cleanup succeeds, and no fault escapes to the caller.
C28_CleanupFaultOnlyLogged ==
    [][(sm.pc = "cleanup" /\ sm'.pc = "done") =>
           /\ sm'.result = sm.result
           /\ sm'.fault = sm.fault
           /\ sm'.result.status \in {"success", "failed", "error"}
           /\ sm'.closeFault => sm'.log = sm.log \o <<Event("close"), Event("warn")>>]_vars
\* a booked task whose browser failed to close: the outcome is still Success
C28_Witness ==
    /\ sm.pc = "done"
    /\ sm.closeFault
    /\ sm.result = Succeeded
    /\ sm.log[Len(sm.log)] = Event("warn")

\* the names of the snapshots taken, in order
SnapshotNames == [k \in 1..Cardinality(Screenshots) |->
                     sm.log[CHOOSE i \in Screenshots :
                                Cardinality({j \in Screenshots : j <= i}) = k].name]

\* C29: a diagnostic snapshot is captured only when a step fails, with the
\* single exception of the final booking confirmation: on a run in which
\* every step succeeds exactly one snapshot (booking success) is taken, and
\* none in the login, questionnaire, main-form or search steps.
C29_SnapshotsOnlyOnFailure ==
    sm.screenshotsOnError =>
        /\ \A k \in Screenshots :
               sm.log[k].name /= "booking_success" => sm.fault /= NoFault
        /\ (sm.pc = "done" /\ sm.result = Succeeded) =>
               SnapshotNames = <<"booking_success">>

\* C30: in the main-form step, when the page has no matching target for a
\* field required for booking correctness (the passport number, the
\* consulate selector), the task ends Errored and the form is not submitted.
C30_RequiredFieldMissing ==
    sm.missing \cap RequiredFields /= {} =>
        /\ Ended
        /\ sm.result.status = "error"
        /\ sm.fault.step = "fillFormulario"
        /\ ~Occurs("submitForm")

\* C31: getTaskResult terminates for every sequence of collaborator
\* responses: it issues at most maxAttempts (60) polls for one solver task,
\* returns the solution on the first 'ready' response, and otherwise ends by
\* raising an error after the last poll.  Every step of the loop is one more
\* poll, so the bound on the polls is a bound on the steps.
C31_PollingTerminates ==
    /\ [](/\ task.polls <= MaxAttempts
          /\ task.state = "threw" => task.polls = MaxAttempts
          /\ task.state = "polling" => task.polls = task.attempt /\ task.polls < MaxAttempts
          /\ task.polls = MaxAttempts => task.state \in {"returned", "threw"})
    /\ [](/\ task.state = "returned" <=> task.last = "ready"
          /\ task.state = "returned" => task.message = "")
    /\ [][task.state = "polling" /\ task'.polls = task.polls + 1]_vars
\* the sixtieth poll was made after 59 polls that did not answer 'ready',
\* some of them failed, and the call has ended with an error
C31_Witness ==
    /\ task.state = "threw"
    /\ task.polls = MaxAttempts
    /\ task.faults = 2
    /\ task.message = "CapSolver task timeout"

\* C32: the counters and the results list are left unchanged while any task
\* of the current batch is still racing: every mutation of the counters for
\* batch k happens after all tasks of batch k have settled and before batch
\* k + 1 starts.  While a batch is open the results and counters hold the
\* earlier batches only; they change in the step that ends the batch.
C32_CountersFrozenWhileRacing ==
    /\ [](pc = "batch" =>
              /\ Len(results[cur]) = Len(Dispatched) - Len(sessions)
              /\ SumOutcomes(stats[cur]) = Len(Dispatched) - Len(sessions)
              /\ stats[cur].pending = stats[cur].total - SumOutcomes(stats[cur]))
    /\ [][(stats' /= stats \/ results' /= results) =>
              \/ pc = "main"
              \/ /\ pc = "batch"
                 /\ \A i \in 1..Len(sessions) : sessions[i].status /= "pending"
                 /\ pc' = "notify"
                 /\ batchNumber' = batchNumber
                 /\ Len(results'[cur]) = Len(Dispatched)
                 /\ SumOutcomes(stats'[cur]) = Len(Dispatched)]_vars
\* a batch of two tasks: one has returned 'success', the other is still
\* racing, and neither the results nor the counters show the success yet
C32_Witness ==
    /\ pc = "batch"
    /\ Len(sessions) = 2
    /\ Pending(sessions) = {2}
    /\ sessions[1].status = "success"
    /\ results[cur] = <<>>
    /\ stats[cur].success = 0
    /\ stats[cur].pending = stats[cur].total

\* C33: with the notification sink enabled and reachable, every Success
\* outcome leads to a success notification and every Errored outcome (other
\* than a business failure) to an error notification, and each such
\* notification has been sent before the process exits.
C33_NotifiedBeforeExit ==
    [][(pc = "exit" /\ pc' = "exited") =>
          \A k \in 1..Len(results[1]) :
              /\ results[1][k].status = "success" =>
                     {"success", Delivered("success")} \subseteq notified
              /\ results[1][k].status \in {"error", "timeout"} =>
                     {"error", Delivered("error")} \subseteq notified]_vars

\* a proxy line is well formed when it has at least 3 colon-delimited fields
FewerThan3Fields(line) == Len(Split(Trim(line), ":")) < 3
Malformed(s) == s.proxy /= NullProxy /\ ~s.proxy.wellFormed

\* parseProxy throws for exactly the lines with fewer than 3 fields
FewFieldsThrow ==
    \A line \in {<<"a">>, <<"a", ":", "b">>, <<" ", "a", ":", ":", "b">>,
                 LineText(SoaxExample), LineText(StandardExample)} :
        FewerThan3Fields(line) <=> ParseProxy(line).state = "throws"

\* C34: a proxy line with fewer than 3 colon-delimited fields is a parse
\* error, and that error is confined to the tasks assigned to that line:
\* each such task ends with an Errored outcome without launching a browser,
\* while every other task of the batch and all later batches run normally.
C34_ParseErrorConfined ==
    /\ FewFieldsThrow
    /\ \A i \in 1..Len(sessions) :
           LET s == sessions[i]
           IN  /\ Malformed(s) =>
                      /\ s.ret = "ctor"
                      /\ s.status = "error"
                      /\ Task(cur, s) \notin executing
               /\ ~Malformed(s) =>
                      /\ s.ret /= "ctor"
                      /\ s.status = "pending" => Task(cur, s) \in executing
               /\ pc = "notify" =>
                      results[cur][Base + i].status =
                          IF Malformed(s) THEN "error"
                          ELSE IF s.ret \in Returned THEN s.ret
                          ELSE s.status
    /\ pc \in {"summary", "returned"} => Len(results[cur]) = Len(accounts[cur])
\* one task per batch on two proxy lines, the second malformed: the first
\* batch got the malformed line and ended 'error', the second batch ran on
\* the good line and booked
C34_Witness ==
    /\ pc = "notify"
    /\ config.parallelSessions = 1
    /\ Len(proxies) = 2
    /\ proxies[1].wellFormed /\ ~proxies[2].wellFormed
    /\ batchNumber = 2
    /\ sessions[1].proxy = proxies[1]
    /\ sessions[1].ret = "success"
    /\ [k \in 1..2 |-> results[cur][k].status] = <<"error", "success">>

TypeOK ==
    /\ pc \in {"main", "run", "loop", "batch", "notify", "summary", "returned", "exit", "exited"}
    /\ cur \in 0..2
    /\ exitCode \in {NoExit, 0, 1}
    /\ retryPasses \in Nat
    /\ notified \subseteq {"started", "batchStatus", "success", "error",
                            "successDelivered", "errorDelivered"}
    /\ parsed.state \in {"input", "ok", "throws"}
    /\ sm.pc \in {"idle", "constructor", "threw", "cleanup", "done"}
                 \cup {Steps[k] : k \in DOMAIN Steps}
                 \cup {"login.type", "login.captcha", "login.submit", "login.verify"}
    /\ sm.navAttempt \in 0..NavAttempts
    /\ sm.captchaAttempt \in 0..MaxRetries
    /\ sm.cleanups \in 0..1
    /\ sm.result.status \in {"none", "success", "failed", "error"}
    /\ sm.solverCalls \in 0..MaxRetries
\* ---- processBatch: execute() of a session whose race was lost to timeoutPromise
\* ends on its own; the value of the losing promise is dropped ----
InitLate ==
    /\ config \in [capsolverApiKey  : {TRUE},
                   parallelSessions : 1..MaxParallel,
                   retryAttempts    : {1},
                   telegramBotToken : {FALSE},
                   telegramChatId   : {FALSE}]
    /\ \E n \in 1..MaxAccounts : accountsFile = [k \in 1..n |-> k]
    /\ proxies = <<>>
    /\ InitRest

Racing(t) ==
    /\ pc = "batch"
    /\ \E i \in Pending(sessions) : Task(cur, sessions[i]) = t

LateEndRecorded(t, outcome) ==
    /\ UNCHANGED unitVars
    /\ pc /= "exited"
    /\ t \in executing
    /\ ~Racing(t)
    /\ executing' = executing \ {t}
    /\ late' = late \cup {[task |-> t, outcome |-> outcome]}
    /\ results' = [results EXCEPT ![t[1]] = Append(@, [status |-> outcome,
                                          account |-> accounts[t[1]][t[2] + 1].username])]
    /\ UNCHANGED <<config, accountsFile, proxies, pc, cur, accounts, stats,
                   accountQueue, batchNumber, sessions, timeoutFired, attempts,
                   retryPasses, batchLog, exitCode, notified>>
LateEnd(t, outcome) ==
    /\ UNCHANGED unitVars
    /\ pc /= "exited"
    /\ t \in executing
    /\ ~Racing(t)
    /\ executing' = executing \ {t}
    /\ late' = late \cup {[task |-> t, outcome |-> outcome]}
    /\ UNCHANGED <<config, accountsFile, proxies, pc, cur, accounts, stats, results,
                   accountQueue, batchNumber, sessions, timeoutFired, attempts,
                   retryPasses, batchLog, exitCode, notified>>

NextLate ==
    \/ Next
    \/ \E lvl \in 1..2, index \in 0..(MaxAccounts - 1), outcome \in Returned :
          LateEnd(<<lvl, index>>, outcome)

SpecLate == InitLate /\ [][NextLate]_vars

\* the account object a state machine was created for
AccountOf(t) == accounts[t[1]][t[2] + 1].id

\* how often the confirmation control was clicked for an account: execute()
\* returned 'success' into its race, or after its race was lost
Booked(id) ==
    {<<l, k>> \in (1..2) \X (1..MaxAccounts) :
        /\ k <= Len(results[l])
        /\ k <= Len(accounts[l])
        /\ accounts[l][k].id = id
        /\ results[l][k].status = "success"}
LateBooked(id) == {x \in late : x.outcome = "success" /\ AccountOf(x.task) = id}
Bookings(id) == Cardinality(Booked(id)) + Cardinality(LateBooked(id))

\* C35: over a whole process run, retry pass included, no account is booked
\* (confirmation control clicked) more than once, also when its first attempt
\* was recorded as timeout and its state machine kept running
C35_BookedAtMostOnce ==
    \A id \in 1..Len(accountsFile) : Bookings(id) <= 1

\* C37: when run() returns, the results list has one outcome per account of
\* that run (length total, pending 0, each account dispatched once), and a state
\* machine that ends after its timeout outcome was recorded adds no outcome and
\* changes no counter
C37_OneOutcomePerAccount ==
    /\ [](pc = "returned" =>
             /\ Len(results[cur]) = stats[cur].total
             /\ Len(results[cur]) = Len(accounts[cur])
             /\ stats[cur].pending = 0
             /\ \A k \in 1..Len(results[cur]) :
                   results[cur][k].account = accounts[cur][k].username)
    /\ [](\A x \in late : x.task[2] + 1 <= Len(results[x.task[1]])
                             => results[x.task[1]][x.task[2] + 1].status = "timeout")
    /\ [][late' /= late => UNCHANGED <<results, stats, sessions, notified>>]_vars
C37_Witness ==
    /\ pc = "returned"
    /\ cur = 1
    /\ Len(results[1]) = 2
    /\ results[1][1].status = "timeout"
    /\ late = {[task |-> <<1, 0>>, outcome |-> "success"]}
    /\ stats[1].success = 0
    /\ stats[1].pending = 0

\* positions of the parent run whose recorded outcome was error or timeout
ErroredPositions == {k \in 1..Len(results[1]) : results[1][k].status \in {"error", "timeout"}}

\* C36: the retry pass covers exactly the errored accounts: each account whose
\* parent outcome was error or timeout is in the retry list exactly once, and
\* the list is as long as the number of error and timeout outcomes, also when
\* accounts share a username
C36_RetryCoversErrored ==
    cur = 2 =>
        /\ Len(accounts[2]) = Cardinality(ErroredPositions)
        /\ \A k \in ErroredPositions : Count(Ids(accounts[2]), accounts[1][k].id) = 1

\* C38: a started or batch-status send that raises does not abort the run: once
\* the orchestrator was started, the process exits only after every batch was
\* processed and every account has an outcome, with the exit code telling
\* whether a Success was recorded
C38_SinkFailureTolerated ==
    (pc = "exited" /\ cur >= 1) =>
        /\ accountQueue = <<>>
        /\ Len(results[1]) = Len(accounts[1])
        /\ stats[1].pending = 0
        /\ exitCode = (IF stats[1].success > 0 THEN 0 ELSE 1)

\* ceil(n / ps)
CeilDiv(n, ps) == (n + ps - 1) \div ps

\* C39: for a valid parallelSessions and a non-empty account list of n
\* accounts, run() ends after exactly ceil(n / parallelSessions) batches unless
\* a notification send fails: every batch takes at least one account off the
\* queue, a batch is settled once the session timer has fired, and run() goes
\* back to the loop (after its 5 s pause) only when accounts remain
C39_RunTerminates ==
    /\ (pc = "loop" /\ batchNumber = 0) ~>
           \/ pc = "returned"
           \/ pc = "exited" /\ TelegramEnabled(config)
    /\ (pc = "batch") ~> (pc = "notify")
    /\ [](pc \in {"loop", "batch", "notify", "summary", "returned"} =>
             /\ batchNumber <= CeilDiv(Len(accounts[cur]), config.parallelSessions)
             /\ Len(accountQueue) + Len(Dispatched) = Len(accounts[cur])
             /\ pc \in {"summary", "returned"} =>
                   /\ batchNumber = CeilDiv(Len(accounts[cur]), config.parallelSessions)
                   /\ accountQueue = <<>>)
    /\ [](pc = "batch" /\ timeoutFired => Pending(sessions) = {})
    /\ [][(pc = "loop" /\ pc' = "batch") =>
             /\ Len(accountQueue') < Len(accountQueue)
             /\ batchNumber' = batchNumber + 1]_vars
    /\ [][pc = "notify" =>
             /\ pc' = "loop" => Len(accountQueue) > 0
             /\ pc' = "summary" => accountQueue = <<>>]_vars
\* three accounts, two at a time: two batches, the first ended by the timer
C39_Witness ==
    /\ pc = "returned"
    /\ config.parallelSessions = 2
    /\ Len(accounts[cur]) = 3
    /\ batchNumber = 2
    /\ results[cur][1].status = "timeout"
    /\ results[cur][3].status = "success"

EmptyToken == "Login failed: CAPTCHA response is empty - token not retrieved properly"

\* C40: the credentials are sent to the login endpoint only together with a
\* non-empty challenge token: when the page yields an empty token, also after
\* no challenge was detected, no request is made and the task ends Errored
C40_NoSubmissionWithoutToken ==
    /\ Occurs("submit") => sm.token = "present"
    /\ sm.token = "empty" =>
           /\ ~Occurs("submit")
           /\ sm.pc \in {"cleanup", "done"}
           /\ sm.fault = [step |-> "login", message |-> EmptyToken]
           /\ sm.result = Errored(EmptyToken)
    /\ sm.token = "unread" => ~Occurs("submit")
\* no challenge was detected, the token read in the page is empty
C40_Witness ==
    /\ sm.pc = "done"
    /\ sm.token = "empty"
    /\ sm.result = Errored(EmptyToken)
    /\ Occurs("detect")
    /\ ~Occurs("solve")
    /\ ~Occurs("submit")

====
